---------------------------- MODULE Spec2Model ----------------------------
(***************************************************************************)
(* Quotation automation: the Gmail ingestion pipeline (gmail-ingest/       *)
(* ingestLogic.js), the quote-number counter, the rate index and the       *)
(* quotation generation handler of the server (unnamed/part_009, the       *)
(* current server.js).                                                     *)
(*                                                                         *)
(* Specifications:                                                         *)
(*   SpecIngest      ingestion batches run one after another               *)
(*   SpecIngestConc  two ingestion batches run concurrently                *)
(*   SpecCounter     concurrent GET /api/next-quote-number requests        *)
(*   SpecRate        rate uploads, handle expiry and quotation generation, *)
(*                   one request at a time                                 *)
(***************************************************************************)
EXTENDS Integers, Sequences, FiniteSets, TLC

(***************************************************************************)
(* Bounds of the model.                                                    *)
(***************************************************************************)
\* emails submitted per behaviour, over all batches
MaxEmails == 3
\* emails submitted per behaviour when runs overlap
MaxConcEmails == 2
\* emails submitted per behaviour to a route that may refuse the request
MaxRouteEmails == 1
\* collaborator failures injected per behaviour
MaxFaults == 1
\* requests to GET /api/next-quote-number per behaviour
MaxAllocations == 4
\* files created at the inference service per behaviour
MaxFiles == 3
\* requests to POST /api/upload-rates per behaviour
MaxRateUploads == 2
MaxRateDeletes == 1
MaxIndexLen == 2
\* requests to POST /api/generate-quotation per behaviour
MaxGenerations == 2

\* the ingestion runs (requests to POST /api/ingest-from-gmail)
Procs == {1, 2}
\* Gmail message ids
EmailIds == {"m1", "m2", "m3"}
\* email bodies: blank (whitespace only) or not
Bodies == {" ", "text"}
\* the clients that call GET /api/next-quote-number
Clients == {1, 2, 3}
\* the documents the rates folder may hold, in listing order
RateDocs == << [name |-> "a", ext |-> ".pdf"],
              [name |-> "b", ext |-> ".PDF"],
              [name |-> "notes", ext |-> ".txt"] >>

(***************************************************************************)
(* Program constants.                                                      *)
(***************************************************************************)
\* ingestLogic.js:15
QUOTE_NUMBER_PREFIX == "DSC-"
\* part_009:1051  const startValue = 107
startValue == 107

\* JavaScript's undefined and null
Undefined == "undefined"
Null == "null"
\* an optional number is <<v>> or NoValue: a DynamoDB attribute that does not
\* exist, a number a failed call did not deliver
NoValue == << >>

\* the error messages of processOneEmail
ErrMissingId == "Missing email id"
ErrDuplicate == "Already imported (duplicate)"
ErrNoInstructions == "No instructions configured on server"
ErrEmptyEmail == "Email has no body and no PDF attachment"
\* err.message of a failed generation and of a failed save
ErrGenerate == "generation failed"
ErrSave == "save failed"

VARIABLES
    \* ---- persistence collaborator (DynamoDB table) ----
    quotations,     \* items keyed by id: id -> [gmailMessageId, quoteNumber]
    counter,        \* value of the QUOTE_NUMBER_COUNTER item: <<v>>, NoValue before the first allocation
    \* ---- environment ----
    clock,          \* the last value Date.now() returned
    instructions,   \* the stored extraction instructions
    faults,         \* collaborator calls that have failed so far
    \* ---- one processAllEmails run per process ----
    pc,             \* where the run is
    batchLen,       \* emails.length
    emails,         \* the elements of the emails array the loop has reached
    enquiryFileId,  \* processOneEmail's enquiryFileId
    quotation,      \* processOneEmail's quotation (buildQuotationToSave's result)
    results,        \* the values processOneEmail returned, in order
    ids,            \* processAllEmails' ids
    errors,         \* processAllEmails' errors
    faultAt,        \* positions of the batch at which a collaborator call failed
    preImported,    \* gmailMessageIds persisted when the run began
    calls           \* the collaborator calls made for the current email, in order

ingestShared == <<quotations, counter, clock, instructions, faults>>
ingestLocal == <<pc, batchLen, emails, enquiryFileId, quotation, results, ids, errors,
                 faultAt, preImported, calls>>
ingestVars == <<ingestShared, ingestLocal>>

VARIABLES
    \* ---- GET /api/next-quote-number, one request at a time per client ----
    ddbConfigured,  \* ddbDocClient && ddbTableName
    cpc,            \* where the client's request is
    nextValue,      \* the handler's nextValue
    requested,      \* requests made so far
    allocations,    \* the updates of the counter item, in the order they took effect
    responses       \* the responses sent, in order

counterVars == <<ddbConfigured, cpc, nextValue, requested, allocations, responses>>

VARIABLES
    \* ---- rate documents, rate index, inference service ----
    storage,          \* the documents in the rates folder (index.json apart)
    rateIndex,        \* content of rates/index.json: mappings [s3Key, openaiFileId]
    openaiFiles,      \* the file ids that exist at the inference service
    filesCreated,     \* files created at the inference service so far
    lastUpsert,       \* s3Key -> openaiFileId of the last addRateMapping that saved it
    rateUploads,      \* upload-rates requests so far
    deletes,          \* the delete-rate-file requests so far: [doc, status]
    \* ---- handleGenerateQuotation, one request at a time ----
    gpc,              \* where the request is
    generations,      \* requests so far
    mappings,         \* the mappings getAllRateMappings returned
    indexReadable,    \* the index was read without error by this request
    uploadedFileIds,  \* the handles handed to the extraction call
    rateFiles,        \* uploadFromStorageAndBuildIndex's rateFiles
    cursor,           \* position of the for loop in rateFiles
    pdfFilesFound,
    pdfFilesUploaded,
    uploadErrors,     \* the s3Keys of uploadErrors
    work,             \* what this request did: listings, reads, uploads, calls
    rebuilds,         \* per rebuild of this request: the extraction calls made before it
    firstError,       \* outcome of the first extraction call of this request
    rebuildError,     \* the error uploadFromStorageAndBuildIndex threw, "none" if none
    indexAtRebuild,   \* the rate index when the rebuild of this request began
    resStatus,        \* res.status of the response, 0 before it is sent
    scenario          \* "done": a rebuild from an empty index with two PDFs stored
                      \* made two mappings; "past": it did in an earlier request

rateStore == <<storage, rateIndex, openaiFiles, filesCreated, lastUpsert, rateUploads,
               deletes>>
rateLocal == <<gpc, generations, mappings, indexReadable, uploadedFileIds, rateFiles, cursor,
               pdfFilesFound, pdfFilesUploaded, uploadErrors, work, rebuilds, firstError,
               rebuildError, indexAtRebuild, resStatus, scenario>>
rateVars == <<rateStore, rateLocal>>

VARIABLES
    \* ---- POST /api/ingest-from-gmail ----
    request,          \* per run: what the route handler saw of the request it refused
    \* ---- a call of a pure function ----
    callArgs,         \* the arguments of the call
    callResult        \* what the call returned

routeVars == <<request>>
callVars == <<callArgs, callResult>>

\* what an ingestion run leaves alone
notIngest == <<counterVars, rateVars, routeVars, callVars>>

vars == <<ingestVars, counterVars, rateVars, routeVars, callVars>>

(***************************************************************************)
(* Pure helpers.                                                           *)
(***************************************************************************)
\* String.prototype.trim() on the modelled bodies: "" when only whitespace
Trim(s) == IF s = " " THEN "" ELSE s

\* a format that leaves the prefix out
BareNumber(value) == value

\* ingestLogic.js formatQuoteNumber: '' for a missing value, else the prefix
\* followed by the value; a string is the sequence of its parts, '' is << >>
formatQuoteNumber(value) ==
    IF value = NoValue THEN << >> ELSE <<QUOTE_NUMBER_PREFIX>> \o value

\* the emails an ingestion request may carry
\* (a record without id is rejected before its content is read)
Emails == [id : EmailIds, body : Bodies, pdf : BOOLEAN]
          \cup {[id |-> "", body |-> "text", pdf |-> FALSE]}

\* gmailMessageIds of the persisted quotations
PersistedGmailIds == {quotations[k].gmailMessageId : k \in DOMAIN quotations}

\* the persisted quotations whose gmailMessageId is g
QuotationsOf(g) == {k \in DOMAIN quotations : quotations[k].gmailMessageId = g}


(***************************************************************************)
(* Persistence collaborator.                                               *)
(***************************************************************************)
\* findQuotationByGmailMessageId(messageId): a persisted quotation with that
\* gmailMessageId, or null
findQuotationByGmailMessageId(messageId) ==
    IF QuotationsOf(messageId) = {} THEN Null ELSE "existing"

\* a save that reports success and writes nothing
DropQuotation(table, q) == table

\* PutCommand keyed by String(quotation.id): an item with the same id is replaced
PutQuotation(table, q) ==
    [k \in DOMAIN table \cup {q.id} |->
        IF k = q.id THEN [gmailMessageId |-> q.gmailMessageId, quoteNumber |-> q.quoteNumber]
        ELSE table[k]]

\* DynamoDB's if_not_exists(#v, :start)
IfNotExists(c, start) == IF c = NoValue THEN start ELSE c[1]

\* the update a lost-update implementation would make: the stored value is
\* left as it is once it exists
StaleCounter(c) == <<IfNotExists(c, startValue + 1)>>

\* UpdateCommand  SET #v = if_not_exists(#v, :start) + :inc  with :inc = 1;
\* the item is read and written in one atomic step
IncrementedCounter(c) == <<IfNotExists(c, startValue) + 1>>

(***************************************************************************)
(* processAllEmails / processOneEmail, one step per awaited call.          *)
(***************************************************************************)
Finished == {"done", "rejected", "refused"}

\* the email processOneEmail is working on and its position in the batch
Pos(p) == Len(emails[p])
Email(p) == emails[p][Pos(p)]

\* processAllEmails' loop body after processOneEmail returned `result`
Collect(p, result) ==
    /\ results' = [results EXCEPT ![p] = Append(@, result)]
    /\ IF result.success
       THEN /\ ids' = [ids EXCEPT ![p] = Append(@, result.id)]
            /\ UNCHANGED errors
       ELSE /\ errors' = [errors EXCEPT ![p] =
                    Append(@, [emailId |-> result.emailId, error |-> result.error])]
            /\ UNCHANGED ids
    /\ pc' = [pc EXCEPT ![p] = "loop"]

\* processOneEmail's results; a failure carries no id (0 here)
Failure(error, emailId) == [success |-> FALSE, error |-> error, emailId |-> emailId, id |-> 0]
Success(id, emailId) == [success |-> TRUE, error |-> "", emailId |-> emailId, id |-> id]

\* a collaborator call of process p fails
CanFail == faults < MaxFaults
Fault(p) ==
    /\ faults' = faults + 1
    /\ faultAt' = [faultAt EXCEPT ![p] = @ \cup {Pos(p)}]
NoFault == UNCHANGED <<faults, faultAt>>

\* the awaited call threw outside any try/catch: processOneEmail rejects, the
\* rejection propagates through the for loop and processAllEmails rejects
Reject(p) ==
    /\ pc' = [pc EXCEPT ![p] = "rejected"]
    /\ UNCHANGED <<results, ids, errors>>

\* process p calls the collaborator fn of ctx with the arguments args
Called(p, fn, args) == calls' = [calls EXCEPT ![p] = Append(@, [fn |-> fn, args |-> args])]

\* emails submitted so far
Submitted == LET Sum[S \in SUBSET Procs] ==
                     IF S = {} THEN 0
                     ELSE LET q == CHOOSE x \in S : TRUE
                          IN  batchLen[q] + Sum[S \ {q}]
             IN  Sum[Procs]

\* processAllEmails is called with an array of n emails
BeginBatch(p, n) ==
    /\ pc[p] = "idle"
    /\ pc' = [pc EXCEPT ![p] = "loop"]
    /\ batchLen' = [batchLen EXCEPT ![p] = n]
    /\ preImported' = [preImported EXCEPT ![p] = PersistedGmailIds]
    /\ UNCHANGED <<ingestShared, emails, enquiryFileId, quotation, results, ids, errors,
                   faultAt, calls>>
    /\ UNCHANGED notIngest

\* runs one after another: a run begins when the runs before it have ended
BeginBatchSeq(p, n) ==
    /\ \A q \in Procs : q < p => pc[q] \in Finished
    /\ Submitted + n <= MaxEmails
    /\ BeginBatch(p, n)

\* runs that overlap: a run begins at any time
BeginBatchConc(p, n) ==
    /\ Submitted + n <= MaxConcEmails
    /\ BeginBatch(p, n)

\* for (const email of emails): processOneEmail starts on the next email e
NextEmail(p, e) ==
    /\ pc[p] = "loop"
    /\ Len(emails[p]) < batchLen[p]
    /\ emails' = [emails EXCEPT ![p] = Append(@, e)]
    /\ enquiryFileId' = [enquiryFileId EXCEPT ![p] = Null]
    /\ calls' = [calls EXCEPT ![p] = << >>]
    /\ IF e.id = ""
       THEN Collect(p, Failure(ErrMissingId, Undefined))
       ELSE /\ pc' = [pc EXCEPT ![p] = "find"]
            /\ UNCHANGED <<results, ids, errors>>
    /\ UNCHANGED <<ingestShared, batchLen, quotation, faultAt, preImported>>
    /\ UNCHANGED notIngest

\* a lookup whose result is not looked at
IgnoreExisting(existing) == FALSE

\* if (existing): the lookup found a quotation
Existing(existing) == existing # Null

\* const existing = await ctx.findQuotationByGmailMessageId(emailId)
FindExisting(p, ok) ==
    /\ pc[p] = "find"
    /\ IF ~ok
       THEN CanFail /\ Fault(p) /\ Reject(p)
       ELSE /\ NoFault
            /\ IF Existing(findQuotationByGmailMessageId(Email(p).id))
               THEN Collect(p, Failure(ErrDuplicate, Email(p).id))
               ELSE /\ pc' = [pc EXCEPT ![p] = "instructions"]
                    /\ UNCHANGED <<results, ids, errors>>
    /\ Called(p, "findQuotationByGmailMessageId", <<Email(p).id>>)
    /\ UNCHANGED <<quotations, counter, clock, instructions, batchLen, emails,
                   enquiryFileId, quotation, preImported>>
    /\ UNCHANGED notIngest

\* const instructions = await ctx.getInstructionsContent()
GetInstructions(p, ok) ==
    /\ pc[p] = "instructions"
    /\ IF ~ok
       THEN CanFail /\ Fault(p) /\ Reject(p)
       ELSE /\ NoFault
            /\ IF Trim(instructions) = ""
               THEN Collect(p, Failure(ErrNoInstructions, Email(p).id))
               ELSE /\ pc' = [pc EXCEPT ![p] = "terms"]
                    /\ UNCHANGED <<results, ids, errors>>
    /\ Called(p, "getInstructionsContent", << >>)
    /\ UNCHANGED <<quotations, counter, clock, instructions, batchLen, emails,
                   enquiryFileId, quotation, preImported>>
    /\ UNCHANGED notIngest

\* const defaultTerms = await ctx.getDefaultTermsContent()
GetDefaultTerms(p, ok) ==
    /\ pc[p] = "terms"
    /\ IF ~ok
       THEN CanFail /\ Fault(p) /\ Reject(p)
       ELSE /\ NoFault
            /\ pc' = [pc EXCEPT ![p] = "upload"]
            /\ UNCHANGED <<results, ids, errors>>
    /\ Called(p, "getDefaultTermsContent", << >>)
    /\ UNCHANGED <<quotations, counter, clock, instructions, batchLen, emails,
                   enquiryFileId, quotation, preImported>>
    /\ UNCHANGED notIngest

\* an attachment block that keeps a handle although the upload failed
HandleAnyway(e, ok) == IF e.pdf THEN "enquiry-file" ELSE Null

\* the enquiryFileId after the attachment block: the handle of the uploaded first
\* PDF attachment, null without one or when the upload failed
UploadedHandle(e, ok) == IF e.pdf /\ ok THEN "enquiry-file" ELSE Null

\* getFirstPdfAttachment, ctx.uploadEnquiryFileToOpenAI in try/catch, then the
\* empty-email check
UploadAttachment(p, ok) ==
    /\ pc[p] = "upload"
    /\ ok \/ (Email(p).pdf /\ CanFail)
    /\ IF ok THEN NoFault ELSE Fault(p)
    /\ enquiryFileId' = [enquiryFileId EXCEPT ![p] = UploadedHandle(Email(p), ok)]
    /\ IF Trim(Email(p).body) = "" /\ enquiryFileId'[p] = Null
       THEN Collect(p, Failure(ErrEmptyEmail, Email(p).id))
       ELSE /\ pc' = [pc EXCEPT ![p] = "generate"]
            /\ UNCHANGED <<results, ids, errors>>
    /\ IF Email(p).pdf
       THEN Called(p, "uploadEnquiryFileToOpenAI", <<Email(p).id>>)
       ELSE UNCHANGED calls
    /\ UNCHANGED <<quotations, counter, clock, instructions, batchLen, emails,
                   quotation, preImported>>
    /\ UNCHANGED notIngest

\* { emailContent: body, instructions, enquiryFileId: enquiryFileId || undefined }
GenerateArgs(p) ==
    <<Email(p).body, instructions,
      IF enquiryFileId[p] = Null THEN Undefined ELSE enquiryFileId[p]>>

\* aiResult = await ctx.generateQuotationData({...}) in try/catch
GenerateQuotationData(p, ok) ==
    /\ pc[p] = "generate"
    /\ IF ~ok
       THEN CanFail /\ Fault(p) /\ Collect(p, Failure(ErrGenerate, Email(p).id))
       ELSE /\ NoFault
            /\ pc' = [pc EXCEPT ![p] = "number"]
            /\ UNCHANGED <<results, ids, errors>>
    /\ Called(p, "generateQuotationData", GenerateArgs(p))
    /\ UNCHANGED <<quotations, counter, clock, instructions, batchLen, emails,
                   enquiryFileId, quotation, preImported>>
    /\ UNCHANGED notIngest

\* buildQuotationToSave: id = Date.now(), which returns the value it returned
\* last (the same millisecond) or a later one
buildQuotationToSave(t, quoteNumber, gmailMessageId) ==
    [id |-> t, quoteNumber |-> quoteNumber, gmailMessageId |-> gmailMessageId]

\* num = await ctx.getNextQuoteNumber() in try/catch, then buildQuotationToSave
AllocateQuoteNumber(p, ok, t) ==
    /\ pc[p] = "number"
    /\ t \in {clock, clock + 1}
    /\ clock' = t
    /\ IF ok
       THEN /\ NoFault
            /\ counter' = IncrementedCounter(counter)
            /\ quotation' = [quotation EXCEPT ![p] =
                    buildQuotationToSave(t, formatQuoteNumber(counter'), Email(p).id)]
       ELSE /\ CanFail
            /\ Fault(p)
            /\ UNCHANGED counter
            /\ quotation' = [quotation EXCEPT ![p] =
                    buildQuotationToSave(t, << >>, Email(p).id)]
    /\ pc' = [pc EXCEPT ![p] = "save"]
    /\ Called(p, "getNextQuoteNumber", << >>)
    /\ UNCHANGED <<quotations, instructions, batchLen, emails, enquiryFileId,
                   results, ids, errors, preImported>>
    /\ UNCHANGED notIngest

\* await ctx.saveQuotation(quotation) in try/catch, then the success result
SaveQuotation(p, ok) ==
    /\ pc[p] = "save"
    /\ IF ok
       THEN /\ NoFault
            /\ quotations' = PutQuotation(quotations, quotation[p])
            /\ Collect(p, Success(quotation[p].id, Email(p).id))
       ELSE /\ CanFail
            /\ Fault(p)
            /\ UNCHANGED quotations
            /\ Collect(p, Failure(ErrSave, Email(p).id))
    /\ Called(p, "saveQuotation", <<quotation[p].id>>)
    /\ UNCHANGED <<counter, clock, instructions, batchLen, emails, enquiryFileId,
                   quotation, preImported>>
    /\ UNCHANGED notIngest

\* return { created: ids.length, ids, errors }
ReturnBatch(p) ==
    /\ pc[p] = "loop"
    /\ Len(emails[p]) = batchLen[p]
    /\ pc' = [pc EXCEPT ![p] = "done"]
    /\ UNCHANGED <<ingestShared, batchLen, emails, enquiryFileId, quotation, results,
                   ids, errors, faultAt, preImported, calls>>
    /\ UNCHANGED notIngest

\* the value processAllEmails returned
Returned(p) == [created |-> Len(ids[p]), ids |-> ids[p], errors |-> errors[p]]

IngestStep(p) ==
    \/ \E e \in Emails : NextEmail(p, e)
    \/ \E ok \in BOOLEAN : FindExisting(p, ok)
    \/ \E ok \in BOOLEAN : GetInstructions(p, ok)
    \/ \E ok \in BOOLEAN : GetDefaultTerms(p, ok)
    \/ \E ok \in BOOLEAN : UploadAttachment(p, ok)
    \/ \E ok \in BOOLEAN : GenerateQuotationData(p, ok)
    \/ \E ok \in BOOLEAN, t \in {clock, clock + 1} : AllocateQuoteNumber(p, ok, t)
    \/ \E ok \in BOOLEAN : SaveQuotation(p, ok)
    \/ ReturnBatch(p)

InitIngest ==
    /\ quotations = << >>
    /\ counter = NoValue
    /\ clock = 1
    /\ instructions \in {"", "instructions"}
    /\ faults = 0
    /\ pc = [p \in Procs |-> "idle"]
    /\ batchLen = [p \in Procs |-> 0]
    /\ emails = [p \in Procs |-> << >>]
    /\ enquiryFileId = [p \in Procs |-> Null]
    /\ quotation = [p \in Procs |-> buildQuotationToSave(0, << >>, "")]
    /\ results = [p \in Procs |-> << >>]
    /\ ids = [p \in Procs |-> << >>]
    /\ errors = [p \in Procs |-> << >>]
    /\ faultAt = [p \in Procs |-> {}]
    /\ preImported = [p \in Procs |-> {}]
    /\ calls = [p \in Procs |-> << >>]

\* no request to GET /api/next-quote-number is made
InitCounter ==
    /\ ddbConfigured \in BOOLEAN
    /\ cpc = [c \in Clients |-> "idle"]
    /\ nextValue = [c \in Clients |-> NoValue]
    /\ requested = 0
    /\ allocations = << >>
    /\ responses = << >>

(***************************************************************************)
(* POST /api/ingest-from-gmail (gmail-ingest/route.js).                    *)
(***************************************************************************)
\* what the handler reads of a request and of its context: INGEST_SECRET
\* ("" when not set), the X-Ingest-Secret header, req.body.emails, and
\* whether ctx has saveQuotation and getNextQuoteNumber
Requests == [secret : {"", "s3cret"}, provided : {Undefined, "s3cret", "wrong"},
             emails : {Undefined, "object", "array"},
             saveQuotation : BOOLEAN, getNextQuoteNumber : BOOLEAN]

\* a request that passes the checks of the handler
PassingRequest == [secret |-> "", provided |-> Undefined, emails |-> "array",
                   saveQuotation |-> TRUE, getNextQuoteNumber |-> TRUE]

\* the status the handler answers before any email is processed, 0 when the
\* request goes on to processAllEmails
RouteStatus(req) ==
    IF req.secret # "" /\ req.provided # req.secret THEN 401
    ELSE IF req.emails # "array" THEN 400
    ELSE IF ~req.saveQuotation \/ ~req.getNextQuoteNumber THEN 501
    ELSE 0

\* the handler answers 401, 400 or 501 and returns
RefuseIngest(p, req) ==
    /\ pc[p] = "idle"
    /\ RouteStatus(req) # 0
    /\ pc' = [pc EXCEPT ![p] = "refused"]
    /\ request' = [request EXCEPT ![p] = req]
    /\ UNCHANGED <<ingestShared, batchLen, emails, enquiryFileId, quotation, results, ids,
                   errors, faultAt, preImported, calls, counterVars, rateVars, callVars>>

RefuseIngestSeq(p, req) ==
    /\ \A q \in Procs : q < p => pc[q] \in Finished
    /\ RefuseIngest(p, req)

\* the status of the response of run p, 0 while it has not answered: 200 with
\* the result of processAllEmails, 500 from the catch block when it rejected
HttpStatus(p) ==
    IF pc[p] = "refused" THEN RouteStatus(request[p])
    ELSE IF pc[p] = "done" THEN 200
    ELSE IF pc[p] = "rejected" THEN 500
    ELSE 0

IdleRoute == request = [p \in Procs |-> PassingRequest]

\* a request that passes the checks: processAllEmails runs on its n emails
AcceptIngestSeq(p, n) ==
    /\ Submitted + n <= MaxRouteEmails
    /\ \A q \in Procs : q < p => pc[q] \in Finished
    /\ BeginBatch(p, n)

NextIngest ==
    \E p \in Procs :
        \/ \E n \in 0..MaxEmails : BeginBatchSeq(p, n)
        \/ IngestStep(p)

NextIngestConc ==
    \E p \in Procs :
        \/ \E n \in 0..MaxConcEmails : BeginBatchConc(p, n)
        \/ IngestStep(p)

NextRoute ==
    \E p \in Procs :
        \/ \E req \in Requests : RefuseIngestSeq(p, req)
        \/ \E n \in 0..MaxRouteEmails : AcceptIngestSeq(p, n)
        \/ IngestStep(p)



(***************************************************************************)
(* GET /api/next-quote-number, one step per awaited call.                  *)
(***************************************************************************)
\* what a request for a quote number leaves alone
notCounter == <<quotations, clock, instructions, faults, ingestLocal, rateVars,
                routeVars, callVars>>

\* res.status(status).json(...): value is <<v>> in a 200 response
RespondNumber(c, status, value) ==
    /\ responses' = Append(responses, [client |-> c, status |-> status, value |-> value])
    /\ cpc' = [cpc EXCEPT ![c] = "idle"]

\* the handler starts: 500 when DynamoDB is not configured
RequestNextQuoteNumber(c) ==
    /\ cpc[c] = "idle"
    /\ requested < MaxAllocations
    /\ requested' = requested + 1
    /\ IF ~ddbConfigured
       THEN RespondNumber(c, 500, NoValue)
       ELSE /\ cpc' = [cpc EXCEPT ![c] = "update"]
            /\ UNCHANGED responses
    /\ UNCHANGED <<counter, ddbConfigured, nextValue, allocations, notCounter>>

\* await ddbDocClient.send(new UpdateCommand(...)): the atomic update takes
\* effect and returns the new value (UPDATED_NEW), or the call throws and the
\* catch block answers 500
UpdateCounter(c, ok) ==
    /\ cpc[c] = "update"
    /\ IF ok
       THEN /\ counter' = IncrementedCounter(counter)
            /\ nextValue' = [nextValue EXCEPT ![c] = counter']
            /\ allocations' = Append(allocations, [client |-> c, before |-> counter,
                                                   after |-> counter'])
            /\ cpc' = [cpc EXCEPT ![c] = "respond"]
            /\ UNCHANGED responses
       ELSE /\ RespondNumber(c, 500, NoValue)
            /\ UNCHANGED <<counter, nextValue, allocations>>
    /\ UNCHANGED <<ddbConfigured, requested, notCounter>>

\* if (!nextValue) 500, else res.json({ value: nextValue })
RespondNextQuoteNumber(c) ==
    /\ cpc[c] = "respond"
    /\ IF nextValue[c] = NoValue \/ nextValue[c] = <<0>>
       THEN RespondNumber(c, 500, NoValue)
       ELSE RespondNumber(c, 200, nextValue[c])
    /\ nextValue' = [nextValue EXCEPT ![c] = NoValue]
    /\ UNCHANGED <<counter, ddbConfigured, requested, allocations, notCounter>>

NextCounter ==
    \E c \in Clients :
        \/ RequestNextQuoteNumber(c)
        \/ \E ok \in BOOLEAN : UpdateCounter(c, ok)
        \/ RespondNextQuoteNumber(c)

\* the values the 200 responses carried, in order
Answers == SelectSeq(responses, LAMBDA r : r.status = 200)

\* C9 (counter monotonicity): under any interleaving of concurrent
\* allocations, each update raises the stored value by exactly 1 from the
\* value the update before it left (from the start value 107 when the item
\* does not exist, so the first allocation returns 108), the values are
\* strictly increasing in the order the updates take effect, and no two
\* allocations answer the same value.
C9_CounterMonotonic ==
    /\ \A i \in 1..Len(allocations) :
          /\ allocations[i].before = NoValue => allocations[i].after = <<108>>
          /\ allocations[i].before # NoValue
                => allocations[i].after[1] = allocations[i].before[1] + 1
          /\ i > 1 => allocations[i].before = allocations[i - 1].after
          /\ i = 1 => allocations[i].before = NoValue
    /\ \A i \in 1..Len(allocations), j \in 1..Len(allocations) :
          i < j => allocations[i].after[1] < allocations[j].after[1]
    /\ \A i \in 1..Len(Answers), j \in 1..Len(Answers) :
          i # j => Answers[i].value # Answers[j].value
    /\ \A i \in 1..Len(Answers) :
          \E j \in 1..Len(allocations) :
             allocations[j] = [client |-> Answers[i].client, before |-> allocations[j].before,
                               after |-> Answers[i].value]

\* two allocations in flight at once have both updated the counter and a
\* third has been answered
C9_ConcurrentAllocations ==
    \E c \in Clients, d \in Clients :
        /\ c # d
        /\ cpc[c] = "respond" /\ cpc[d] = "respond"
        /\ Len(allocations) >= 3
        /\ Len(Answers) >= 1

(***************************************************************************)
(* Rate index (rates/index.json).                                          *)
(***************************************************************************)
\* what the rate routes and quotation generation leave alone
notRate == <<quotations, counter, clock, instructions, ingestLocal, counterVars,
             routeVars, callVars>>

RateDocSet == {RateDocs[i] : i \in 1..Len(RateDocs)}

\* String.prototype.toLowerCase() on the modelled extensions
ToLowerCase(ext) == IF ext = ".PDF" THEN ".pdf" ELSE ext

\* path.extname(name).toLowerCase() === '.pdf'
IsPdf(doc) == ToLowerCase(doc.ext) = ".pdf"

\* loadRateIndex: the stored array, or [] when the index cannot be read
LoadRateIndex(ok) == IF ok THEN rateIndex ELSE << >>

\* an upsert that keeps the entries of the same s3Key
AppendMapping(index, mapping) == Append(index, mapping)

\* addRateMapping's new index: index.filter(m => m.s3Key !== mapping.s3Key)
\* followed by push(mapping)
Upsert(index, mapping) ==
    Append(SelectSeq(index, LAMBDA m : m.s3Key # mapping.s3Key), mapping)

\* addRateMapping(mapping): load, filter, push, save; saveRateIndex may throw,
\* and then nothing is written
addRateMapping(mapping, loadOk, saveOk) ==
    IF saveOk
    THEN /\ rateIndex' = Upsert(LoadRateIndex(loadOk), mapping)
         /\ lastUpsert' = [lastUpsert EXCEPT ![mapping.s3Key] = mapping.openaiFileId]
    ELSE UNCHANGED <<rateIndex, lastUpsert>>

\* openai.files.create: a file with a new id exists at the inference service
CreateFile ==
    /\ filesCreated' = filesCreated + 1
    /\ openaiFiles' = openaiFiles \cup {filesCreated'}

\* the calls among oks that fail, charged to the failures of the behaviour
Failing(oks) == Cardinality({i \in 1..Len(oks) : ~oks[i]})
Charge(oks) ==
    /\ faults + Failing(oks) <= MaxFaults
    /\ faults' = faults + Failing(oks)

\* POST /api/upload-rates with one file: a non-PDF is refused; the file is
\* stored, then uploaded to the inference service and mapped; a failure of
\* the upload or of addRateMapping is swallowed and the file stays stored
UploadRates(doc, storeOk, uploadOk, loadOk, saveOk) ==
    /\ gpc = "idle"
    /\ rateUploads < MaxRateUploads
    /\ rateUploads' = rateUploads + 1
    /\ IF ~IsPdf(doc)
       THEN /\ storeOk /\ uploadOk /\ loadOk /\ saveOk
            /\ UNCHANGED <<faults, storage, rateIndex, openaiFiles, filesCreated, lastUpsert>>
       ELSE IF ~storeOk
       THEN /\ Charge(<<storeOk>>)
            /\ uploadOk /\ loadOk /\ saveOk
            /\ UNCHANGED <<storage, rateIndex, openaiFiles, filesCreated, lastUpsert>>
       ELSE /\ storage' = storage \cup {doc}
            /\ IF ~uploadOk
               THEN /\ Charge(<<uploadOk>>)
                    /\ loadOk /\ saveOk
                    /\ UNCHANGED <<rateIndex, openaiFiles, filesCreated, lastUpsert>>
               ELSE /\ filesCreated < MaxFiles
                    /\ Charge(<<loadOk, saveOk>>)
                    /\ CreateFile
                    /\ addRateMapping([s3Key |-> doc, openaiFileId |-> filesCreated'],
                                      loadOk, saveOk)
    /\ UNCHANGED <<deletes, rateLocal, notRate>>

\* a file is deleted or expires at the inference service
ExpireFile(f) ==
    /\ gpc \in {"idle", "call"}
    /\ f \in openaiFiles
    /\ openaiFiles' = openaiFiles \ {f}
    /\ UNCHANGED <<faults, storage, rateIndex, filesCreated, lastUpsert, rateUploads,
                   deletes, rateLocal, notRate>>

\* the positions of the mappings of document d in an index
MappingsOf(index, d) == {i \in 1..Len(index) : index[i].s3Key = d}

\* index.find(m => m.s3Key.split('/').pop() === filename): the first mapping
\* of the file, << >> when there is none
FindMapping(index, filename) ==
    IF MappingsOf(index, filename) = {} THEN << >>
    ELSE <<index[CHOOSE i \in MappingsOf(index, filename) :
                    \A j \in MappingsOf(index, filename) : i <= j]>>

\* removeRateMappingByS3Key's new index: index.filter(m => m.s3Key !== s3Key)
WithoutKey(index, s3Key) == SelectSeq(index, LAMBDA m : m.s3Key # s3Key)

\* removeRateMappingByS3Key(s3Key): load, filter, save; saveRateIndex may
\* throw, and then nothing is written
removeRateMappingByS3Key(s3Key, loadOk, saveOk) ==
    IF saveOk
    THEN rateIndex' = WithoutKey(LoadRateIndex(loadOk), s3Key)
    ELSE UNCHANGED rateIndex

\* POST /api/delete-rate-file: the mapping of the file is looked up in the
\* index; when found, its file is deleted at the inference service (a failure
\* is only logged) and the mapping removed; a failure of the index write is
\* only logged too. Then the file is deleted from storage: 404 when it is not
\* there, 500 when storage fails, success otherwise
DeleteRateFile(doc, loadOk, delOk, reloadOk, saveOk, storageOk) ==
    /\ gpc = "idle"
    /\ Len(deletes) < MaxRateDeletes
    /\ LET mapping == FindMapping(LoadRateIndex(loadOk), doc)
       IN  IF mapping = << >>
           THEN /\ delOk /\ reloadOk /\ saveOk
                /\ Charge(<<loadOk, storageOk>>)
                /\ UNCHANGED <<rateIndex, openaiFiles>>
           ELSE /\ Charge(<<loadOk, delOk, reloadOk, saveOk, storageOk>>)
                /\ openaiFiles' = IF delOk THEN openaiFiles \ {mapping[1].openaiFileId}
                                  ELSE openaiFiles
                /\ removeRateMappingByS3Key(mapping[1].s3Key, reloadOk, saveOk)
    /\ storage' = IF storageOk THEN storage \ {doc} ELSE storage
    /\ deletes' = Append(deletes,
                         [doc |-> doc,
                          handles |-> {rateIndex[i].openaiFileId :
                                          i \in MappingsOf(rateIndex, doc)},
                          status |-> IF ~storageOk THEN 500
                                     ELSE IF doc \notin storage THEN 404 ELSE 200])
    /\ UNCHANGED <<filesCreated, lastUpsert, rateUploads, rateLocal, notRate>>

(***************************************************************************)
(* handleGenerateQuotation, one step per awaited call.                     *)
(***************************************************************************)
NoWork == [listings |-> 0, reads |-> 0, uploads |-> 0, calls |-> 0]

\* the openaiFileIds of an index, in order: mappings.map(m => m.openaiFileId)
Handles(index) == [i \in 1..Len(index) |-> index[i].openaiFileId]

\* listFilesFromS3('rates'): the stored documents, index.json left out
Listing == SelectSeq(RateDocs, LAMBDA d : d \in storage)

StoredPdfs == {d \in storage : IsPdf(d)}

\* a fallback that rebuilds whatever the index holds
AlwaysRebuild(fileIds) == TRUE

\* if (uploadedFileIds.length === 0): the rebuild is needed
NeedsRebuild(fileIds) == Len(fileIds) = 0

\* a handler that rebuilds and calls again whenever the handles are stale
RetryWhenStale(error) == IF error = "stale" THEN "list" ELSE "idle"

\* an error of the extraction call reaches the catch block of the handler,
\* which answers 500: the request is over
AfterExtractionError(error) == "idle"

\* res.status(status).json(...): the request is over
Respond(s) ==
    /\ gpc' = "idle"
    /\ resStatus' = s

\* a rebuild that ends, by return or by throw, ends an attempt at the scenario
\* "index empty, two PDFs stored -> two mappings"
EndScenario(made) ==
    scenario' = IF scenario \in {"done", "past"} THEN scenario
                ELSE IF scenario = "started" /\ made THEN "done" ELSE "none"

\* a validation that lets every request through
AcceptAll(emailContent, fileContent, fileId, instr) == 0

\* the two checks at the head of handleGenerateQuotation: the status of the
\* refusal, 0 when the request passes
ValidateRequest(emailContent, fileContent, fileId, instr) ==
    IF emailContent = "" /\ fileContent = "" /\ fileId = Null THEN 400
    ELSE IF instr = "" \/ Trim(instr) = "" THEN 400
    ELSE 0

\* the request arrives; 400 without content or without instructions
ReceiveGenerate(emailContent, fileContent, fileId, instr) ==
    /\ gpc = "idle"
    /\ generations < MaxGenerations
    /\ generations' = generations + 1
    /\ mappings' = << >>
    /\ indexReadable' = FALSE
    /\ uploadedFileIds' = << >>
    /\ rateFiles' = << >>
    /\ cursor' = 0
    /\ pdfFilesFound' = 0
    /\ pdfFilesUploaded' = 0
    /\ uploadErrors' = << >>
    /\ work' = NoWork
    /\ rebuilds' = << >>
    /\ firstError' = "none"
    /\ rebuildError' = "none"
    /\ indexAtRebuild' = << >>
    /\ IF ValidateRequest(emailContent, fileContent, fileId, instr) # 0
       THEN Respond(ValidateRequest(emailContent, fileContent, fileId, instr))
       ELSE /\ gpc' = "index"
            /\ resStatus' = 0
    /\ scenario' = IF scenario = "done" THEN "past" ELSE scenario
    /\ UNCHANGED <<faults, rateStore>>

BeginGenerate(emailContent, fileContent, fileId, instr) ==
    /\ ReceiveGenerate(emailContent, fileContent, fileId, instr)
    /\ UNCHANGED notRate

\* the same request, kept for what is claimed about it
BeginGenerateOf(req) ==
    /\ ReceiveGenerate(req.emailContent, req.fileContent, req.enquiryFileId,
                       req.instructions)
    /\ callArgs' = <<req>>
    /\ UNCHANGED <<quotations, counter, clock, instructions, ingestLocal, counterVars,
                   routeVars, callResult>>

\* const mappings = await getAllRateMappings(); the handles of a non-empty
\* index are used as they are
LoadMappings(ok) ==
    /\ gpc = "index"
    /\ Charge(<<ok>>)
    /\ mappings' = LoadRateIndex(ok)
    /\ indexReadable' = ok
    /\ uploadedFileIds' = IF Len(mappings') > 0 THEN Handles(mappings') ELSE << >>
    /\ gpc' = IF NeedsRebuild(uploadedFileIds') THEN "list" ELSE "call"
    /\ UNCHANGED <<rateStore, generations, rateFiles, cursor, pdfFilesFound,
                   pdfFilesUploaded, uploadErrors, work, rebuilds, firstError, rebuildError,
                   indexAtRebuild, resStatus, scenario, notRate>>

\* uploadFromStorageAndBuildIndex starts: the rates folder is listed; an empty
\* listing throws
ListRateFiles(ok) ==
    /\ gpc = "list"
    /\ Charge(<<ok>>)
    /\ work' = [work EXCEPT !.listings = @ + 1]
    /\ rebuilds' = Append(rebuilds, work.calls)
    /\ indexAtRebuild' = rateIndex
    /\ rebuildError' = IF ~ok THEN "listing failed"
                       ELSE IF Len(Listing) = 0 THEN "No rate files uploaded" ELSE "none"
    /\ IF ~ok \/ Len(Listing) = 0
       THEN /\ Respond(500)
            /\ EndScenario(FALSE)
            /\ UNCHANGED <<rateFiles, cursor, pdfFilesFound, pdfFilesUploaded, uploadErrors>>
       ELSE /\ rateFiles' = Listing
            /\ cursor' = 1
            /\ pdfFilesFound' = 0
            /\ pdfFilesUploaded' = 0
            /\ uploadErrors' = << >>
            /\ gpc' = "file"
            /\ scenario' = IF scenario \in {"done", "past"} THEN scenario
                           ELSE IF rateIndex = << >> /\ Cardinality(StoredPdfs) = 2
                                THEN "started" ELSE "none"
            /\ UNCHANGED resStatus
    /\ UNCHANGED <<rateStore, generations, mappings, indexReadable, uploadedFileIds,
                   firstError, notRate>>

\* the catch block of the loop: it reads fileBuffer, which is declared with
\* let inside the try block and is not in scope here, so that it throws a
\* ReferenceError before uploadErrors.push
CatchUploadError(collected, rateFile) ==
    [threw |-> "fileBuffer is not defined", uploadErrors |-> collected]

\* one turn of  for (const rateFile of rateFiles): a non-PDF is skipped; a
\* PDF is read, uploaded and mapped; an error of any of the three enters the
\* catch block, whose own error leaves the loop and the rebuild
RebuildFile(readOk, uploadOk, loadOk, saveOk) ==
    /\ gpc = "file"
    /\ cursor <= Len(rateFiles)
    /\ cursor' = cursor + 1
    /\ LET rateFile == rateFiles[cursor]
           caught == CatchUploadError(uploadErrors, rateFile)
           Caught == /\ uploadErrors' = caught.uploadErrors
                     /\ rebuildError' = caught.threw
                     /\ IF caught.threw # "none"
                        THEN Respond(500) /\ EndScenario(FALSE)
                        ELSE UNCHANGED <<gpc, resStatus, scenario>>
           Passed == UNCHANGED <<uploadErrors, rebuildError, gpc, resStatus, scenario>>
       IN  IF ~IsPdf(rateFile)
           THEN /\ readOk /\ uploadOk /\ loadOk /\ saveOk
                /\ Passed
                /\ UNCHANGED <<faults, rateIndex, openaiFiles, filesCreated, lastUpsert,
                               uploadedFileIds, pdfFilesFound, pdfFilesUploaded, work>>
           ELSE /\ pdfFilesFound' = pdfFilesFound + 1
                /\ IF ~readOk
                   THEN /\ Charge(<<readOk>>)
                        /\ uploadOk /\ loadOk /\ saveOk
                        /\ work' = [work EXCEPT !.reads = @ + 1]
                        /\ Caught
                        /\ UNCHANGED <<rateIndex, openaiFiles, filesCreated, lastUpsert,
                                       uploadedFileIds, pdfFilesUploaded>>
                   ELSE IF ~uploadOk
                   THEN /\ Charge(<<uploadOk>>)
                        /\ loadOk /\ saveOk
                        /\ work' = [work EXCEPT !.reads = @ + 1]
                        /\ Caught
                        /\ UNCHANGED <<rateIndex, openaiFiles, filesCreated, lastUpsert,
                                       uploadedFileIds, pdfFilesUploaded>>
                   ELSE /\ filesCreated < MaxFiles
                        /\ Charge(<<loadOk, saveOk>>)
                        /\ work' = [work EXCEPT !.reads = @ + 1, !.uploads = @ + 1]
                        /\ CreateFile
                        /\ uploadedFileIds' = Append(uploadedFileIds, filesCreated')
                        /\ pdfFilesUploaded' = pdfFilesUploaded + 1
                        /\ addRateMapping([s3Key |-> rateFile, openaiFileId |-> filesCreated'],
                                          loadOk, saveOk)
                        /\ IF saveOk THEN Passed ELSE Caught
    /\ UNCHANGED <<storage, rateUploads, deletes, generations, mappings, indexReadable,
                   rateFiles, rebuilds, firstError, indexAtRebuild, notRate>>

\* the error thrown after the loop: none when some PDF was uploaded
RebuildError(found, uploaded) ==
    IF found = 0 THEN "No PDF rate files found"
    ELSE IF uploaded = 0 THEN "Failed to upload rate files to OpenAI"
    ELSE "none"

\* the loop is over: throws when no PDF was found or none was uploaded, else
\* returns { uploadErrors } and the handler goes on to the extraction call
FinishRebuild ==
    /\ gpc = "file"
    /\ cursor > Len(rateFiles)
    /\ rebuildError' = RebuildError(pdfFilesFound, pdfFilesUploaded)
    /\ IF rebuildError' # "none"
       THEN /\ Respond(500)
            /\ EndScenario(FALSE)
       ELSE /\ gpc' = "call"
            /\ EndScenario(Len(rateIndex) = 2)
            /\ UNCHANGED resStatus
    /\ UNCHANGED <<faults, rateStore, generations, mappings, indexReadable, uploadedFileIds,
                   rateFiles, cursor, pdfFilesFound, pdfFilesUploaded, uploadErrors, work,
                   rebuilds, firstError, indexAtRebuild, notRate>>

\* some handle handed to the extraction call no longer exists
Stale == \E i \in 1..Len(uploadedFileIds) : uploadedFileIds[i] \notin openaiFiles

\* await openai.responses.create(...): 404 'were not found' when a handle is
\* stale, else the extraction succeeds (200) or fails with another error
CallExtraction(ok) ==
    /\ gpc = "call"
    /\ work' = [work EXCEPT !.calls = @ + 1]
    /\ LET error == IF Stale THEN "stale" ELSE IF ok THEN "none" ELSE "other"
       IN  /\ IF Stale THEN ok /\ UNCHANGED faults ELSE Charge(<<ok>>)
           /\ firstError' = IF work.calls = 0 THEN error ELSE firstError
           /\ IF error = "none"
              THEN Respond(200)
              ELSE /\ gpc' = AfterExtractionError(error)
                   /\ resStatus' = IF gpc' = "idle" THEN 500 ELSE 0
    /\ UNCHANGED <<rateStore, generations, mappings, indexReadable, uploadedFileIds,
                   rateFiles, cursor, pdfFilesFound, pdfFilesUploaded, uploadErrors,
                   rebuilds, rebuildError, indexAtRebuild, scenario, notRate>>

\* the rates folder holds any of the documents, nothing is indexed or uploaded
InitRate ==
    /\ storage \in SUBSET RateDocSet
    /\ rateIndex = << >>
    /\ openaiFiles = {}
    /\ filesCreated = 0
    /\ lastUpsert = [d \in RateDocSet |-> 0]
    /\ rateUploads = 0
    /\ deletes = << >>
    /\ gpc = "idle"
    /\ generations = 0
    /\ mappings = << >>
    /\ indexReadable = FALSE
    /\ uploadedFileIds = << >>
    /\ rateFiles = << >>
    /\ cursor = 0
    /\ pdfFilesFound = 0
    /\ pdfFilesUploaded = 0
    /\ uploadErrors = << >>
    /\ work = NoWork
    /\ rebuilds = << >>
    /\ firstError = "none"
    /\ rebuildError = "none"
    /\ indexAtRebuild = << >>
    /\ resStatus = 0
    /\ scenario = "none"

NextRate ==
    \/ \E doc \in RateDocSet, storeOk \in BOOLEAN, uploadOk \in BOOLEAN,
          loadOk \in BOOLEAN, saveOk \in BOOLEAN :
            UploadRates(doc, storeOk, uploadOk, loadOk, saveOk)
    \/ \E f \in 1..MaxFiles : ExpireFile(f)
    \/ \E doc \in RateDocSet, loadOk \in BOOLEAN, delOk \in BOOLEAN, reloadOk \in BOOLEAN,
          saveOk \in BOOLEAN, storageOk \in BOOLEAN :
            DeleteRateFile(doc, loadOk, delOk, reloadOk, saveOk, storageOk)
    \/ \E emailContent \in {"", "text"}, fileContent \in {"", "text"},
          fileId \in {Null, "enquiry-file"}, instr \in {"", " ", "instructions"} :
            BeginGenerate(emailContent, fileContent, fileId, instr)
    \/ \E ok \in BOOLEAN : LoadMappings(ok)
    \/ \E ok \in BOOLEAN : ListRateFiles(ok)
    \/ \E readOk \in BOOLEAN, uploadOk \in BOOLEAN, loadOk \in BOOLEAN, saveOk \in BOOLEAN :
            RebuildFile(readOk, uploadOk, loadOk, saveOk)
    \/ FinishRebuild
    \/ \E ok \in BOOLEAN : CallExtraction(ok)

\* the requests POST /api/generate-quotation may carry
GenerateRequests ==
    [emailContent : {"", "text"}, fileContent : {"", "text"},
     enquiryFileId : {Null, "enquiry-file"}, instructions : {"", " ", "instructions"}]

\* generation requests alone, each kept while it is served
NextGenerate ==
    \/ \E req \in GenerateRequests : BeginGenerateOf(req)
    \/ \E ok \in BOOLEAN : LoadMappings(ok)
    \/ \E ok \in BOOLEAN : ListRateFiles(ok)
    \/ \E readOk \in BOOLEAN, uploadOk \in BOOLEAN, loadOk \in BOOLEAN, saveOk \in BOOLEAN :
            RebuildFile(readOk, uploadOk, loadOk, saveOk)
    \/ FinishRebuild
    \/ \E ok \in BOOLEAN : CallExtraction(ok)

(***************************************************************************)
(* loadRateIndex as a function of the storage backend and of what the      *)
(* backing index file is.                                                  *)
(***************************************************************************)
Backends == {"s3", "gcs", "local"}

\* the mappings an index may hold and the arrays of at most MaxIndexLen of them
IndexMappings == [s3Key : {d \in RateDocSet : IsPdf(d)}, openaiFileId : 1..MaxFiles]
IndexArrays == UNION {[1..n -> IndexMappings] : n \in 0..MaxIndexLen}

\* what JSON.parse may return: an array, or a value that is not an array
JsonValues ==
    {[isArray |-> TRUE, type |-> "array", items |-> a] : a \in IndexArrays}
        \cup {[isArray |-> FALSE, type |-> t, items |-> << >>] :
                    t \in {"object", "number", "null"}}
NoJson == [isArray |-> FALSE, type |-> "undefined", items |-> << >>]

\* the text of the index file: the JSON of a value, or text that is not JSON
IndexTexts ==
    {[valid |-> TRUE, raw |-> "json", json |-> v] : v \in JsonValues}
        \cup {[valid |-> FALSE, raw |-> t, json |-> NoJson] : t \in {"", "[{oops"}}
NoText == [valid |-> FALSE, raw |-> "", json |-> NoJson]

\* the backing index: absent, present but unreadable, or present with a text
IndexFiles ==
    {[state |-> st, text |-> NoText] : st \in {"absent", "unreadable"}}
        \cup {[state |-> "present", text |-> t] : t \in IndexTexts}

\* readFileFromS3 / readFileFromGCS / fs.readFileSync of the index
ReadIndexFile(file) ==
    IF file.state = "absent" THEN [threw |-> "NoSuchKey", value |-> NoText]
    ELSE IF file.state = "unreadable" THEN [threw |-> "ReadError", value |-> NoText]
    ELSE [threw |-> "none", value |-> file.text]

\* JSON.parse(text)
JSONParse(text) ==
    IF text.valid THEN [threw |-> "none", value |-> text.json]
    ELSE [threw |-> "SyntaxError", value |-> NoJson]

\* read, then parse: the first of the two that throws ends the try block
ReadAndParse(file) ==
    IF ReadIndexFile(file).threw # "none"
    THEN [threw |-> ReadIndexFile(file).threw, value |-> NoJson]
    ELSE JSONParse(ReadIndexFile(file).value)

\* a handler that lets the error out
Rethrow(error) == [threw |-> error, value |-> << >>]

\* the catch blocks: the error is logged at most and the empty array returned
ReturnEmpty(error) == [threw |-> "none", value |-> << >>]

\* loadRateIndex(): data when it was read, parsed and is an array, else []
loadRateIndex(backend, file) ==
    IF backend \in {"s3", "gcs"}
    THEN IF ReadAndParse(file).threw # "none"
         THEN ReturnEmpty(ReadAndParse(file).threw)
         ELSE IF ReadAndParse(file).value.isArray
         THEN [threw |-> "none", value |-> ReadAndParse(file).value.items]
         ELSE [threw |-> "none", value |-> << >>]
    ELSE IF file.state # "absent"
         THEN IF ReadAndParse(file).threw # "none"
              THEN ReturnEmpty(ReadAndParse(file).threw)
              ELSE [threw |-> "none",
                    value |-> IF ReadAndParse(file).value.isArray
                              THEN ReadAndParse(file).value.items ELSE << >>]
         ELSE [threw |-> "none", value |-> << >>]

\* one call of loadRateIndex
CallLoadRateIndex(backend, file) ==
    /\ callArgs' = <<[backend |-> backend, file |-> file]>>
    /\ callResult' = <<loadRateIndex(backend, file)>>
    /\ UNCHANGED <<ingestVars, counterVars, rateVars, routeVars>>

NextLoadIndex == \E backend \in Backends, file \in IndexFiles : CallLoadRateIndex(backend, file)

(***************************************************************************)
(* The normalisation of one line item of the extraction result.  A number  *)
(* is a decimal fraction n/d (d a power of ten) or NaN; a field of the     *)
(* item is missing or is the text of its value, a sequence of characters.  *)
(***************************************************************************)
NaN == [nan |-> TRUE, n |-> 0, d |-> 1]
Zero == [nan |-> FALSE, n |-> 0, d |-> 1]

DigitOf ==
    ("0" :> 0) @@ ("1" :> 1) @@ ("2" :> 2) @@ ("3" :> 3) @@ ("4" :> 4) @@
    ("5" :> 5) @@ ("6" :> 6) @@ ("7" :> 7) @@ ("8" :> 8) @@ ("9" :> 9)

RECURSIVE Pow10(_)
Pow10(k) == IF k = 0 THEN 1 ELSE 10 * Pow10(k - 1)

\* the index of the first character that is not white space
RECURSIVE SkipSpaces(_, _)
SkipSpaces(chars, i) ==
    IF i <= Len(chars) /\ chars[i] = " " THEN SkipSpaces(chars, i + 1) ELSE i

\* the run of digits that starts at i: its value, its length, where it ends
RECURSIVE ScanDigits(_, _, _, _)
ScanDigits(chars, i, value, count) ==
    IF i <= Len(chars) /\ chars[i] \in DOMAIN DigitOf
    THEN ScanDigits(chars, i + 1, 10 * value + DigitOf[chars[i]], count + 1)
    ELSE [n |-> value, count |-> count, next |-> i]

\* parseFloat of a text: white space, a sign, digits, a point and digits;
\* the longest such prefix is the number, NaN when it holds no digit
ParseText(chars) ==
    LET start == SkipSpaces(chars, 1)
        signed == start <= Len(chars) /\ chars[start] \in {"-", "+"}
        negative == signed /\ chars[start] = "-"
        whole == ScanDigits(chars, IF signed THEN start + 1 ELSE start, 0, 0)
        point == whole.next <= Len(chars) /\ chars[whole.next] = "."
        fraction == IF point THEN ScanDigits(chars, whole.next + 1, 0, 0)
                    ELSE [n |-> 0, count |-> 0, next |-> whole.next]
        magnitude == whole.n * Pow10(fraction.count) + fraction.n
    IN  IF whole.count + fraction.count = 0 THEN NaN
        ELSE [nan |-> FALSE,
              n |-> IF negative THEN 0 - magnitude ELSE magnitude,
              d |-> Pow10(fraction.count)]

\* parseFloat(item.field): a missing field reads as 'undefined', which is NaN
ParseFloat(field) == IF field.present THEN ParseText(field.chars) ELSE NaN

\* a normalisation that lets NaN through
KeepNaN(x) == x

\* x || 0: NaN and 0 are falsy
OrZero(x) == IF x.nan \/ x.n = 0 THEN Zero ELSE x

\* Number.isFinite(x) ? x : 0
FiniteOrZero(x) == IF x.nan THEN Zero ELSE x

\* 1 + m / 100
OnePlusPercent(m) == [nan |-> m.nan, n |-> 100 * m.d + m.n, d |-> 100 * m.d]

\* a * b
Times(a, b) == [nan |-> a.nan \/ b.nan, n |-> a.n * b.n, d |-> a.d * b.d]

Abs(k) == IF k < 0 THEN 0 - k ELSE k

\* x.toFixed(2), in hundredths: the nearest; at a tie the binary value of x
\* may lie on either side, so that either neighbour can come out
ToFixed2(x) ==
    IF x.nan THEN {[nan |-> TRUE, cents |-> 0]}
    ELSE LET n == IF x.d >= 100 THEN x.n ELSE x.n * (100 \div x.d)
             d == IF x.d >= 100 THEN x.d \div 100 ELSE 1
             low == n \div d
         IN  {[nan |-> FALSE, cents |-> c] :
                 c \in {k \in {low, low + 1} : 2 * Abs(k * d - n) <= d}}

\* the texts a field may hold
FieldTexts ==
    {<<"0">>, <<"3">>, <<"7">>, <<"1", "2", ".", "5">>, <<"0", ".", "3", "3">>,
     <<".", "5">>, <<"-", "5">>, <<" ", "7">>, <<"1", ",", "2", "0", "0">>,
     <<"1", "2", "x">>, <<"a", "b", "c">>, <<"-">>, << >>}
Missing == [present |-> FALSE, chars |-> << >>]
Fields == {Missing} \cup {[present |-> TRUE, chars |-> t] : t \in FieldTexts}

\* what the extraction call may have put in finalRate and lineTotal
Supplied == {Missing, [present |-> TRUE, chars |-> <<"9", "9", ".", "9", "9">>]}

LineItems ==
    [quantity : Fields, unitRate : Fields, marginPercent : Fields,
     finalRate : Supplied, lineTotal : Supplied]

\* lineItems.map(item => ...): the values the item is rebuilt from
unitRate(item) == OrZero(ParseFloat(item.unitRate))
marginPercent(item) == FiniteOrZero(ParseFloat(item.marginPercent))
quantity(item) == OrZero(ParseFloat(item.quantity))
finalRate(item) == Times(unitRate(item), OnePlusPercent(marginPercent(item)))
lineTotal(item) == Times(quantity(item), finalRate(item))

\* the line item is replaced by the normalised one
NormalizeLineItem ==
    /\ callArgs # << >>
    /\ callResult = << >>
    /\ \E rate \in ToFixed2(finalRate(callArgs[1])),
          total \in ToFixed2(lineTotal(callArgs[1])),
          unit \in ToFixed2(unitRate(callArgs[1])) :
            callResult' = <<[unitRate |-> unit, finalRate |-> rate, lineTotal |-> total]>>
    /\ UNCHANGED <<callArgs, ingestVars, counterVars, rateVars, routeVars>>

NextLineItem == NormalizeLineItem

(***************************************************************************)
(* addRateMapping called by requests that overlap, one step per awaited    *)
(* call: loadRateIndex, then saveRateIndex.                                *)
(***************************************************************************)
\* the requests that call addRateMapping (upload-rates requests or rebuilds)
Callers == {1, 2}

\* the rate documents a mapping is made for
PdfDocs == {d \in RateDocSet : IsPdf(d)}

\* what a call of addRateMapping leaves alone
notAddMapping == <<quotations, counter, clock, instructions, ingestLocal, counterVars,
                   routeVars, storage, rateUploads, deletes, rateLocal>>

\* callArgs[c] is the mapping of the call caller c made last, callResult[c]
\* where that call is and the index its loadRateIndex returned
NotCalling == {"idle", "returned", "threw"}

\* a request has uploaded doc to the inference service and calls
\* addRateMapping({ s3Key, openaiFileId })
AddRateMappingCall(c, doc) ==
    /\ callResult[c].at \in NotCalling
    /\ filesCreated < MaxFiles
    /\ CreateFile
    /\ callArgs' = [callArgs EXCEPT ![c] = <<[s3Key |-> doc, openaiFileId |-> filesCreated']>>]
    /\ callResult' = [callResult EXCEPT ![c] = [at |-> "load", index |-> << >>]]
    /\ UNCHANGED <<faults, rateIndex, lastUpsert, notAddMapping>>

\* const index = await loadRateIndex()
AddRateMappingLoad(c, ok) ==
    /\ callResult[c].at = "load"
    /\ Charge(<<ok>>)
    /\ callResult' = [callResult EXCEPT ![c] = [at |-> "save", index |-> LoadRateIndex(ok)]]
    /\ UNCHANGED <<callArgs, rateIndex, lastUpsert, openaiFiles, filesCreated, notAddMapping>>

\* filtered = index.filter(...); filtered.push(mapping); await saveRateIndex(filtered):
\* the stored index is overwritten with the array built from what was loaded
AddRateMappingSave(c, ok) ==
    /\ callResult[c].at = "save"
    /\ Charge(<<ok>>)
    /\ IF ok
       THEN /\ rateIndex' = Upsert(callResult[c].index, callArgs[c][1])
            /\ lastUpsert' = [lastUpsert EXCEPT ![callArgs[c][1].s3Key] =
                                  callArgs[c][1].openaiFileId]
            /\ callResult' = [callResult EXCEPT ![c].at = "returned"]
       ELSE /\ UNCHANGED <<rateIndex, lastUpsert>>
            /\ callResult' = [callResult EXCEPT ![c].at = "threw"]
    /\ UNCHANGED <<callArgs, openaiFiles, filesCreated, notAddMapping>>

\* no call of addRateMapping has been made
InitAddMapping ==
    /\ callArgs = [c \in Callers |-> << >>]
    /\ callResult = [c \in Callers |-> [at |-> "idle", index |-> << >>]]

NextAddMapping ==
    \E c \in Callers :
        \/ \E doc \in PdfDocs : AddRateMappingCall(c, doc)
        \/ \E ok \in BOOLEAN : AddRateMappingLoad(c, ok)
        \/ \E ok \in BOOLEAN : AddRateMappingSave(c, ok)

(***************************************************************************)
(* Specifications.                                                         *)
(***************************************************************************)
\* no ingestion run, no request for a quote number, no rate request
IdleIngest == InitIngest /\ instructions = "instructions"
IdleCounter == InitCounter /\ ddbConfigured
IdleRate == InitRate /\ storage = {}
IdleCall == callArgs = << >> /\ callResult = << >>

InitOfIngest == InitIngest /\ IdleRoute /\ IdleCounter /\ IdleRate /\ IdleCall
InitOfCounter == IdleIngest /\ IdleRoute /\ InitCounter /\ IdleRate /\ IdleCall
InitOfRate == IdleIngest /\ IdleRoute /\ IdleCounter /\ InitRate /\ IdleCall
InitOfCall == IdleIngest /\ IdleRoute /\ IdleCounter /\ IdleRate /\ IdleCall
InitOfAddMapping == IdleIngest /\ IdleRoute /\ IdleCounter /\ InitRate /\ InitAddMapping
InitOfLineItem ==
    /\ IdleIngest /\ IdleRoute /\ IdleCounter /\ IdleRate
    /\ callArgs \in {<<item>> : item \in LineItems}
    /\ callResult = << >>

SpecIngest == InitOfIngest /\ [][NextIngest]_vars
SpecIngestConc == InitOfIngest /\ [][NextIngestConc]_vars
SpecRoute == InitOfIngest /\ [][NextRoute]_vars
SpecCounter == InitOfCounter /\ [][NextCounter]_vars
SpecRate == InitOfRate /\ [][NextRate]_vars
SpecGenerate == InitOfRate /\ [][NextGenerate]_vars
SpecAddMapping == InitOfAddMapping /\ [][NextAddMapping]_vars
SpecLoadIndex == InitOfCall /\ [][NextLoadIndex]_vars
SpecLineItem == InitOfLineItem /\ [][NextLineItem]_vars

(***************************************************************************)
(* Claims about ingestion.                                                 *)
(***************************************************************************)
\* submission (p, i) -- email i of run p -- is made before submission (q, j):
\* earlier in the same batch, or in a batch that ended before q's began
SubmittedBefore(p, i, q, j) == (p = q /\ i < j) \/ p < q

\* submission (q, j) is the last one made so far
LastSubmission(q, j) ==
    /\ j = Len(emails[q])
    /\ \A r \in Procs : r > q => pc[r] = "idle"

\* an email crafted to fail: blank body and no PDF attachment
CraftedToFail(e) == Trim(e.body) = "" /\ ~e.pdf

\* C1 (idempotent ingestion): when an email id is submitted again after a
\* submission of it succeeded, in the same batch or in a later batch, then
\* once the later submission has been processed it has been answered
\* 'Already imported (duplicate)' and exactly one quotation with that
\* gmailMessageId is persisted.
C1_IdempotentIngestion ==
    \A p \in Procs, q \in Procs :
        \A i \in 1..Len(results[p]), j \in 1..Len(results[q]) :
            ( /\ SubmittedBefore(p, i, q, j)
              /\ LastSubmission(q, j)
              /\ emails[p][i].id # ""
              /\ emails[p][i].id = emails[q][j].id
              /\ results[p][i].success )
            => /\ results[q][j] = Failure(ErrDuplicate, emails[q][j].id)
               /\ Cardinality(QuotationsOf(emails[q][j].id)) = 1

\* C2 (deduplication key): no two persisted quotations share a non-empty
\* gmailMessageId, also when ingestion batches run concurrently.
C2_UniqueGmailMessageId ==
    \A g \in PersistedGmailIds : g # "" => Cardinality(QuotationsOf(g)) = 1

\* C3 (batch never aborted): a failing collaborator call never aborts the
\* batch; when the batch has returned every email was processed and each
\* email during which a call failed has its failure in errors.
C3_FailureNeverAbortsBatch ==
    \A p \in Procs :
        /\ pc[p] # "rejected"
        /\ pc[p] = "done" =>
              /\ Len(results[p]) = batchLen[p]
              /\ \A k \in faultAt[p] :
                    /\ ~results[p][k].success
                    /\ \E x \in 1..Len(errors[p]) :
                          errors[p][x].emailId = emails[p][k].id

\* the positions of run p's batch other than k, in batch order
Others(p, k) == SelectSeq([i \in 1..batchLen[p] |-> i], LAMBDA i : i # k)

\* C4 (batch isolation): when a batch of N emails with distinct ids not
\* imported before, in which item k alone is crafted to fail and no
\* collaborator failed, returns, it returns created = N-1, one error entry,
\* which is item k's, and as ids the ids of the persisted quotations of the
\* other emails in batch order.
C4_BatchIsolation ==
    \A p \in Procs :
        \A k \in 1..batchLen[p] :
            ( /\ pc[p] = "done"
              /\ \A r \in Procs : r > p => pc[r] = "idle"
              /\ faultAt[p] = {}
              /\ Trim(instructions) # ""
              /\ \A i \in 1..batchLen[p] :
                    /\ emails[p][i].id # ""
                    /\ emails[p][i].id \notin preImported[p]
                    /\ \A j \in 1..batchLen[p] : i # j => emails[p][i].id # emails[p][j].id
                    /\ CraftedToFail(emails[p][i]) <=> i = k )
            => /\ Returned(p).created = batchLen[p] - 1
               /\ Returned(p).errors =
                     <<[emailId |-> emails[p][k].id, error |-> ErrEmptyEmail]>>
               /\ Len(Returned(p).ids) = batchLen[p] - 1
               /\ \A x \in 1..Len(Returned(p).ids) :
                     /\ Returned(p).ids[x] \in DOMAIN quotations
                     /\ quotations[Returned(p).ids[x]].gmailMessageId
                            = emails[p][Others(p, k)[x]].id

\* the status the route answers to a request when nothing goes wrong
ExpectedStatus(req) == IF RouteStatus(req) # 0 THEN RouteStatus(req) ELSE 200

\* C13 (ingest route statuses): a run that has answered has answered 401 for
\* a wrong or missing secret, else 400 for a body without emails array, else
\* 501 without save or quote-number collaborator, else 200 with the batch
\* result; a refused run has processed no email, and while every run so far
\* was refused nothing is persisted and the counter has not moved.
C13_RouteStatuses ==
    /\ \A p \in Procs :
          pc[p] \in Finished =>
              /\ HttpStatus(p) = ExpectedStatus(request[p])
              /\ HttpStatus(p) \in {401, 400, 501}
                    => emails[p] = << >> /\ results[p] = << >> /\ ids[p] = << >>
    /\ (\A p \in Procs : pc[p] \in {"idle", "refused"})
          => quotations = << >> /\ counter = NoValue

\* C16 (safe re-submission): when the save of email e's quotation failed, the
\* failure is e's error and, until e is submitted again, no quotation with
\* gmailMessageId e is persisted; a later submission of e, once processed,
\* has not been answered 'duplicate' and, when its collaborators succeeded,
\* has left exactly one quotation for e.
C16_SafeResubmission ==
    \A p \in Procs :
        \A i \in 1..Len(results[p]) :
            results[p][i] = Failure(ErrSave, emails[p][i].id) =>
                /\ \E x \in 1..Len(errors[p]) :
                      errors[p][x] = [emailId |-> emails[p][i].id, error |-> ErrSave]
                /\ LastSubmission(p, i) => QuotationsOf(emails[p][i].id) = {}
                /\ \A q \in Procs :
                      \A j \in 1..Len(results[q]) :
                          ( /\ SubmittedBefore(p, i, q, j)
                            /\ LastSubmission(q, j)
                            /\ emails[q][j].id = emails[p][i].id
                            /\ \A r \in Procs : \A k \in 1..Len(results[r]) :
                                  ( /\ SubmittedBefore(p, i, r, k)
                                    /\ SubmittedBefore(r, k, q, j) )
                                  => emails[r][k].id # emails[p][i].id )
                          => /\ results[q][j].error # ErrDuplicate
                             /\ ( /\ j \notin faultAt[q]
                                  /\ ~CraftedToFail(emails[q][j]) )
                                => /\ results[q][j].success
                                   /\ Cardinality(QuotationsOf(emails[q][j].id)) = 1

\* email e's save failed, e was submitted again and its quotation is persisted
C16_ResubmittedAfterFailedSave ==
    \E p \in Procs, q \in Procs :
        \E i \in 1..Len(results[p]), j \in 1..Len(results[q]) :
            /\ SubmittedBefore(p, i, q, j)
            /\ results[p][i].error = ErrSave
            /\ emails[q][j].id = emails[p][i].id
            /\ results[q][j].success
            /\ QuotationsOf(emails[q][j].id) = {results[q][j].id}

\* the quotations created by ingestion, as (run, position)
Created == {s \in Procs \X (1..MaxEmails) : s[2] <= Len(results[s[1]]) /\ results[s[1]][s[2]].success}

\* C17 (distinct ids): any two quotations created by ingestion have distinct
\* ids, so that no save replaces a quotation saved before.
C17_DistinctIds ==
    \A s \in Created, t \in Created :
        s # t => results[s[1]][s[2]].id # results[t[1]][t[2]].id

(***************************************************************************)
(* Claims about the rate index and quotation generation.                   *)
(***************************************************************************)

\* the rebuilds of this request made after an extraction call
RetryRebuilds == Cardinality({i \in 1..Len(rebuilds) : rebuilds[i] > 0})

\* the request has been answered
Answered == gpc = "idle" /\ resStatus # 0

\* C5 (stale-handle retry): a generation whose first extraction call failed
\* with a 'file not found'-class error has, when it is answered, performed
\* exactly one rebuild after that failure and at most one more call; one
\* whose first call failed otherwise has performed no rebuild after the
\* failure and no second call.
C5_StaleHandleRetry ==
    Answered =>
        /\ firstError = "stale" => RetryRebuilds = 1 /\ work.calls <= 2
        /\ firstError = "other" => RetryRebuilds = 0 /\ work.calls = 1

\* C6 (retry bound): a generation performs at most one rebuild and at most
\* two extraction calls, also when every call reports stale handles.
C6_RetryBound == Len(rebuilds) <= 1 /\ work.calls <= 2

\* a generation that rebuilt the mappings was answered 500 after the
\* extraction call reported stale handles
C6_StaleAfterRebuild ==
    Answered /\ resStatus = 500 /\ firstError = "stale" /\ Len(rebuilds) = 1

\* C7 (mapping uniqueness): after addRateMapping calls made one after
\* another, loadRateIndex returns at most one mapping per s3Key, and it is
\* the mapping last upserted for that key.
C7_MappingUniqueness ==
    \A ok \in BOOLEAN :
        LET index == LoadRateIndex(ok)
        IN  \A i \in 1..Len(index) :
                /\ MappingsOf(index, index[i].s3Key) = {i}
                /\ index[i].openaiFileId = lastUpsert[index[i].s3Key]

\* the same document was upserted twice and the index holds its second mapping
C7_UpsertedTwice ==
    /\ rateUploads = 2 /\ generations = 0 /\ faults = 0
    /\ filesCreated = 2
    /\ Len(rateIndex) = 1
    /\ rateIndex[1].openaiFileId = 2

\* C8 (rebuild completeness): when uploadFromStorageAndBuildIndex has
\* returned without throwing, every stored PDF has exactly one mapping in
\* the rate index, also when an upload or an index write of the rebuild failed.
C8_RebuildMapsEveryPdf ==
    (gpc = "call" /\ Len(rebuilds) > 0)
        => \A d \in StoredPdfs : Cardinality(MappingsOf(rateIndex, d)) = 1

\* C10 (fast path): when the index read by a generation is non-empty, the
\* handles resolved are exactly those of the index and no listing, no read
\* of a rate document and no upload was made; and once a rebuild from an
\* empty index with two PDFs stored has made two mappings, every later
\* resolution that reads the index, no rate file having been deleted since,
\* makes no listing, read or upload.
C10_FastPath ==
    /\ (gpc = "call" /\ Len(mappings) > 0)
          => /\ uploadedFileIds = Handles(rateIndex)
             /\ work.listings = 0 /\ work.reads = 0 /\ work.uploads = 0
    /\ (gpc = "call" /\ scenario = "past" /\ indexReadable /\ deletes = << >>)
          => /\ uploadedFileIds = Handles(rateIndex)
             /\ work.listings = 0 /\ work.reads = 0 /\ work.uploads = 0

\* after the rebuild of the scenario a later generation resolved the two
\* handles of the index without an upload and was answered 200
C10_ShortCircuitAfterRebuild ==
    /\ scenario = "past"
    /\ Answered /\ resStatus = 200
    /\ Len(mappings) = 2
    /\ uploadedFileIds = Handles(mappings)
    /\ work = [NoWork EXCEPT !.calls = 1]

\* C18 (delete removes the mapping): after a delete-rate-file request for a
\* stored rate document was answered with success, and while the document has
\* not been stored again, the rate index holds no mapping for that document
\* and no generation passes a handle the index held for it.
C18_DeleteRemovesMapping ==
    \A d \in RateDocSet :
        (/\ Len(deletes) > 0
         /\ deletes[Len(deletes)].doc = d
         /\ deletes[Len(deletes)].status = 200
         /\ d \notin storage)
          => /\ MappingsOf(rateIndex, d) = {}
             /\ gpc = "call"
                  => \A i \in 1..Len(uploadedFileIds) :
                         uploadedFileIds[i] \notin deletes[Len(deletes)].handles

\* C11 (lazy mapping creation): when a generation whose index read and
\* uploads all succeeded reaches the extraction call, every PDF rate document
\* in storage has a mapping in the rate index whose handle is among the
\* handles passed to the call, whether or not other documents were already
\* mapped.
C11_LazyMapping ==
    (gpc = "call" /\ indexReadable /\ uploadErrors = << >>)
      => \A d \in StoredPdfs :
            \E i \in MappingsOf(rateIndex, d) :
                \E j \in 1..Len(uploadedFileIds) :
                    uploadedFileIds[j] = rateIndex[i].openaiFileId

\* C19 (no stale mapping after a stale report): when a generation whose
\* extraction call was refused because a handle is no longer known to the
\* inference service has been answered, the rate index holds no mapping
\* carrying one of the handles that were passed to that call.
C19_NoStaleMappingAfterReport ==
    (Answered /\ firstError = "stale")
      => \A i \in 1..Len(rateIndex) :
            \A j \in 1..Len(uploadedFileIds) :
                rateIndex[i].openaiFileId # uploadedFileIds[j]

\* C20 (upsert frame): a step in which addRateMapping saved a mapping keeps,
\* unchanged, every mapping of another storage key that was in the index
\* before the call, also when the index could not be read.
C20_UpsertFrame ==
    [][lastUpsert' # lastUpsert
         => \A i \in 1..Len(rateIndex) :
                lastUpsert'[rateIndex[i].s3Key] = lastUpsert[rateIndex[i].s3Key]
                  => \E j \in 1..Len(rateIndex') : rateIndex'[j] = rateIndex[i]]_vars

\* C14 (rebuild failures): a rebuild whose storage listing is empty ends with
\* the error 'No rate files uploaded'; a rebuild that ends by a throw after
\* at least one PDF was found and no upload succeeded ends with the error
\* 'Failed to upload rate files to OpenAI' and holds one error message for
\* each PDF found; in both cases the rate index is what it was when the
\* rebuild began.
C14_RebuildFailures ==
    [][/\ (gpc = "list" /\ Len(Listing) = 0 /\ faults' = faults)
            => /\ rebuildError' = "No rate files uploaded"
               /\ rateIndex' = indexAtRebuild'
       /\ (gpc = "file" /\ gpc' = "idle" /\ pdfFilesFound' >= 1 /\ pdfFilesUploaded' = 0)
            => /\ rebuildError' = "Failed to upload rate files to OpenAI"
               /\ Len(uploadErrors') = pdfFilesFound'
               /\ rateIndex' = indexAtRebuild']_vars

(***************************************************************************)
(* Claims about loadRateIndex.                                             *)
(***************************************************************************)
\* the call was made on such a backing index
Loaded(file) == callResult # << >> /\ callArgs[1].file = file

\* C15 (loadRateIndex never fails): for every storage backend a call of
\* loadRateIndex returns without raising; it returns the empty array when
\* the backing index is absent, cannot be read, is not valid JSON or is not
\* an array, and the array itself otherwise.
C15_LoadNeverFails ==
    \A file \in IndexFiles :
        Loaded(file)
          => /\ callResult[1].threw = "none"
             /\ callResult[1].value =
                  IF file.state = "present" /\ file.text.valid /\ file.text.json.isArray
                  THEN file.text.json.items ELSE << >>

\* an index file that cannot be read was loaded from a cloud backend as the
\* empty array
C15_UnreadableLoadedEmpty ==
    /\ callResult # << >>
    /\ callArgs[1].backend = "gcs"
    /\ callArgs[1].file.state = "unreadable"
    /\ callResult[1] = [threw |-> "none", value |-> << >>]

(***************************************************************************)
(* Claims about the line items.                                            *)
(***************************************************************************)
\* the number parsed from a field, 0 when it is missing or unparseable
NumberOf(field) == IF ParseFloat(field).nan THEN Zero ELSE ParseFloat(field)

LaterSteps == {"instructions", "terms", "upload", "generate", "number", "save"}

\* processOneEmail has returned for the current email of p
Processed(p) == Len(emails[p]) > 0 /\ Len(results[p]) = Len(emails[p])

\* the value processOneEmail returned for the current email of p
Result(p) == results[p][Len(results[p])]

C22_BestEffortQuoteNumber ==
    [][\A p \in Procs :
        /\ (pc[p] = "number" /\ pc'[p] # "number")
             => /\ pc'[p] = "save"
                /\ quotation'[p].gmailMessageId = Email(p).id
                /\ quotation'[p].quoteNumber =
                     IF counter' = counter THEN << >>
                     ELSE <<QUOTE_NUMBER_PREFIX>> \o counter'
        /\ (pc[p] = "save" /\ pc'[p] # "save" /\ faults' = faults)
             => /\ quotation[p].id \in DOMAIN quotations'
                /\ quotations'[quotation[p].id].quoteNumber = quotation[p].quoteNumber
                /\ quotations'[quotation[p].id].gmailMessageId = Email(p).id
                /\ results'[p][Len(results'[p])].success
                /\ results'[p][Len(results'[p])].id = quotation[p].id]_vars

\* an email whose quote-number allocation failed was persisted with the empty
\* quoteNumber and reported as created
C22_SavedWithoutNumber ==
    \E p \in Procs :
        /\ Processed(p) /\ Result(p).success
        /\ Pos(p) \in faultAt[p]
        /\ calls[p][Len(calls[p])].fn = "saveQuotation"
        /\ counter = NoValue
        /\ Result(p).id \in DOMAIN quotations
        /\ quotations[Result(p).id].quoteNumber = << >>

\* the last collaborator call made for the current email of p was the upload
\* of its attachment, and it failed
UploadJustFailed(p) ==
    /\ calls[p] # << >>
    /\ calls[p][Len(calls[p])].fn = "uploadEnquiryFileToOpenAI"
    /\ Pos(p) \in faultAt[p]

\* C23 (failed attachment upload): after the upload of an email's PDF
\* attachment has failed, an email with a blank body has been rejected with
\* the empty-email error without a generation call, and an email with a
\* non-blank body is about to be generated from its body with no enquiry-file
\* handle, as an email without attachment is.
C23_FailedUploadIsNoAttachment ==
    \A p \in Procs :
        UploadJustFailed(p)
          => IF Trim(Email(p).body) = ""
             THEN Processed(p) /\ Result(p).error = ErrEmptyEmail
             ELSE /\ pc[p] = "generate"
                  /\ GenerateArgs(p) = <<Email(p).body, instructions, Undefined>>

\* an email with a blank body whose attachment upload failed was rejected as
\* an empty email
C23_BlankBodyRejected ==
    \E p \in Procs :
        /\ UploadJustFailed(p)
        /\ Email(p).pdf /\ Trim(Email(p).body) = ""
        /\ Processed(p) /\ Result(p).error = ErrEmptyEmail

(***************************************************************************)
(* Claims about the validation of a generation request.                    *)
(***************************************************************************)
\* the request has neither enquiry text nor an enquiry-file handle, or its
\* instructions are blank
Invalid(req) ==
    \/ req.emailContent = "" /\ req.fileContent = "" /\ req.enquiryFileId = Null
    \/ Trim(req.instructions) = ""

\* C24 (validation first): a generation request without enquiry text and
\* enquiry-file handle, or with blank instructions, is answered 400 at once:
\* while it is the current request the index has not been read, nothing was
\* listed, read or uploaded, no extraction call was made, and neither the
\* rate index nor storage nor the files of the inference service changed.
C24_ValidationFirst ==
    [][(callArgs' # << >> /\ Invalid(callArgs'[1]))
         => /\ gpc' = "idle" /\ resStatus' = 400
            /\ work' = NoWork /\ ~indexReadable' /\ Len(rebuilds') = 0
            /\ UNCHANGED <<storage, rateIndex, openaiFiles, filesCreated>>]_vars

\* a request with content and blank instructions was answered 400 although
\* rate documents are stored and unmapped
C24_BlankInstructionsRefused ==
    /\ callArgs # << >>
    /\ callArgs[1].emailContent = "text" /\ callArgs[1].instructions = " "
    /\ gpc = "idle" /\ resStatus = 400
    /\ StoredPdfs # {} /\ rateIndex = << >>

(***************************************************************************)
(* Further claims about the rebuild and the rate index.                    *)
(***************************************************************************)
\* the PDF documents of the listing of this request's rebuild
ListedPdfs == {i \in 1..Len(rateFiles) : IsPdf(rateFiles[i])}

\* C25 (independent uploads): when the rebuild of a request has ended, every
\* PDF of its listing was taken up, each of them was either uploaded and
\* handed to the extraction call or recorded in uploadErrors under its name,
\* and no other document was uploaded or recorded.
C25_UploadsIndependent ==
    (Len(rebuilds) > 0 /\ rateFiles # << >> /\ gpc \in {"call", "idle"})
      => /\ pdfFilesFound = Cardinality(ListedPdfs)
         /\ Len(uploadedFileIds) + Len(uploadErrors) >= Cardinality(ListedPdfs)
         /\ \A j \in 1..Len(uploadErrors) :
                \E i \in ListedPdfs : rateFiles[i] = uploadErrors[j]
         /\ Len(uploadedFileIds) <= Cardinality(ListedPdfs)


\* C29 (no dangling mapping): in every reachable state every mapping of the
\* rate index refers to a rate document that is present in storage.
C29_MappedDocumentsStored ==
    \A i \in 1..Len(rateIndex) : rateIndex[i].s3Key \in storage

\* C30 (failed delete changes nothing): a step that answers a delete request
\* with an error (404 or 500) leaves the rate index and the files of the
\* inference service as they were.
C30_FailedDeleteFrame ==
    [][(Len(deletes') > Len(deletes) /\ deletes'[Len(deletes')].status # 200)
         => UNCHANGED <<rateIndex, openaiFiles>>]_vars


(***************************************************************************)
(* Further claims about processAllEmails.                                  *)
(***************************************************************************)
\* C27 (batch accounting): when processAllEmails has returned for a batch of
\* N emails, created is the length of ids, ids and errors together have N
\* entries, one per email in the order of the batch, and every id in ids is
\* the id of a quotation that saveQuotation accepted.
C27_BatchAccounting ==
    \A p \in Procs :
        pc[p] = "done"
          => /\ Returned(p).created = Len(Returned(p).ids)
             /\ Len(Returned(p).ids) + Len(Returned(p).errors) = batchLen[p]
             /\ Len(results[p]) = batchLen[p]
             /\ \A i \in 1..Len(results[p]) :
                    emails[p][i].id # "" => results[p][i].emailId = emails[p][i].id
             /\ \A i \in 1..Len(Returned(p).ids) :
                    Returned(p).ids[i] \in DOMAIN quotations

\* a returned batch with an id and an error entry
C27_MixedBatchReturned ==
    \E p \in Procs :
        /\ pc[p] = "done"
        /\ batchLen[p] >= 2
        /\ Len(ids[p]) >= 1
        /\ Len(errors[p]) >= 1


\* the persisted quotations that carry a quote number
Numbered == {k \in DOMAIN quotations : quotations[k].quoteNumber # << >>}

\* process p leaves the quote-number step of an email that passed generation
Allocates(p) == pc[p] = "number" /\ pc'[p] = "save"

\* C28 as stated (one number per generated email): every email that passes
\* generation advances the counter by one, no other step changes the counter,
\* and any two persisted quotations carry different quote numbers.
C28_CounterOncePerGenerated ==
    [][/\ \A p \in Procs : Allocates(p) => counter' = IncrementedCounter(counter)
       /\ counter' # counter => \E p \in Procs : Allocates(p)
       /\ \A k \in DOMAIN quotations', l \in DOMAIN quotations' :
              k # l => quotations'[k].quoteNumber # quotations'[l].quoteNumber]_vars

\* C28 (one number per allocation): the counter changes only in the
\* quote-number step of an email that passed generation, and then by one; the
\* email's quotation carries the new number exactly when the allocation call
\* succeeded and the empty number otherwise; a failed save gives nothing back,
\* and any two persisted quotations that carry a number carry different ones.
C28_CounterOncePerAllocation ==
    [][/\ counter' # counter
            => /\ \E p \in Procs : Allocates(p)
               /\ counter' = IncrementedCounter(counter)
       /\ \A p \in Procs :
              Allocates(p)
                => /\ counter' \in {counter, IncrementedCounter(counter)}
                   /\ quotation'[p].quoteNumber =
                          IF counter' # counter THEN formatQuoteNumber(counter')
                          ELSE << >>
       /\ \A k \in Numbered', l \in Numbered' :
              k # l => quotations'[k].quoteNumber # quotations'[l].quoteNumber
       /\ \A p \in Procs :
              (pc[p] = "save" /\ pc'[p] # "save" /\ quotations' = quotations)
                => counter' = counter]_vars

\* a save failed after its number was allocated, and a later email was given
\* the next number and persisted
C28_NumberConsumedByFailedSave ==
    \E p \in Procs, i \in 1..MaxEmails :
        /\ i < Len(results[p])
        /\ results[p][i].error = ErrSave
        /\ results[p][Len(results[p])].success
        /\ counter = <<startValue + 2>>
        /\ \E k \in Numbered : quotations[k].quoteNumber = formatQuoteNumber(counter)


(***************************************************************************)
(* Claims about overlapping calls of addRateMapping.                       *)
(***************************************************************************)
\* caller c's saveRateIndex succeeds in this step
Saves(c) == callResult[c].at = "save" /\ callResult'[c].at = "returned"

\* C26 (last writer wins): a call of addRateMapping that saves overwrites the
\* index with the mappings it loaded, its own mapping replacing the one of
\* the same key; what other calls saved since it loaded is not looked at.
C26_LastWriterWins ==
    [][\A c \in Callers :
          Saves(c)
            => LET read == callResult[c].index
                   mapping == callArgs[c][1]
                   last == Len(rateIndex')
               IN  /\ last >= 1
                   /\ rateIndex'[last] = mapping
                   /\ \A i \in 1..(last - 1) :
                          /\ rateIndex'[i].s3Key # mapping.s3Key
                          /\ \E j \in 1..Len(read) : read[j] = rateIndex'[i]
                   /\ \A j \in 1..Len(read) :
                          read[j].s3Key # mapping.s3Key
                            => \E i \in 1..(last - 1) : rateIndex'[i] = read[j]]_vars

\* two calls for different keys both returned without any failure and the
\* index holds the mapping of only one of them
C26_AdditionLost ==
    \E c \in Callers, d \in Callers :
        /\ faults = 0
        /\ filesCreated = 2
        /\ callResult[c].at = "returned"
        /\ callResult[d].at = "returned"
        /\ callArgs[c][1].s3Key # callArgs[d][1].s3Key
        /\ rateIndex = <<callArgs[c][1]>>
        /\ MappingsOf(rateIndex, callArgs[d][1].s3Key) = {}

=============================================================================
